---------------------------- MODULE Spec2Model ----------------------------
(***************************************************************************)
(* The BVH handle registry of Plugin/src/plugin.cpp: the global slot array *)
(* gBVHs guarded by gBVHMutex, the heap of BVHContainer objects it owns,   *)
(* and a fixed set of caller threads issuing BuildBVH, DestroyBVH and the  *)
(* query operations.  Every exported function is cut at the points where   *)
(* it takes or gives back gBVHMutex; C++ index i is position i+1 of the    *)
(* TLA+ sequence gBVHs.                                                    *)
(***************************************************************************)
EXTENDS Integers, Sequences, FiniteSets, TLC

\* ---- bounds of the model ------------------------------------------------
NumThreads == 2      \* caller threads
MaxAlloc == 2        \* BVHContainer objects that can be allocated at the same time
MaxTris == 1         \* largest triangleCount a caller passes to BuildBVH

\* ---- program constants --------------------------------------------------
BlockSize == 16
BVH_FAR == 1000000
NodeBlocks == 5
\* 2^28 and 2^27: a 32-bit product by 16 wraps at 2^28 and turns negative at 2^27
Wrap16 == 268435456
Sign16 == 134217728
\* the largest triCount whose product by 3 * 16 is an int: 2^31 - 1 = 48 * TrisMax + 15
TrisMax == 44739242

NULL == 0
NoThread == 0
Threads == 1..NumThreads
Addrs == 1..MaxAlloc
\* -1 is negative, 0..MaxAlloc-1 can be in range, MaxAlloc is never in range
Handles == -1..MaxAlloc
TriCounts == 1..MaxTris
\* rays on the line the model's triangles sit on: one towards them, one away
Rays == {[o |-> 0, d |-> 1], [o |-> 0, d |-> -1]}
NoRay == [o |-> 0, d |-> 0]

\* highWater records the largest number of non-empty slots there has been
VARIABLES gBVHs, gBVHMutex, heap, th, highWater

vars == <<gBVHs, gBVHMutex, heap, th, highWater>>

\* ---- the external geometry engine (tinybvh) -----------------------------
\* tinybvh::Intersection(): the no-hit value
NoHit == [t |-> BVH_FAR, prim |-> 0]

Abs(x) == IF x < 0 THEN -x ELSE x

\* Ray::hit after BVH8::Intersect / BVH8_CWBVH::Intersect over triangles that
\* sit at positions 1..n of a line: the nearest triangle in front of the ray
EngineIntersect(n, ray) ==
    LET front == {p \in 1..n : (p - ray.o) * ray.d > 0}
    IN  IF front = {} THEN NoHit
        ELSE LET p == CHOOSE q \in front : \A r \in front : Abs(q - ray.o) <= Abs(r - ray.o)
             IN  [t |-> Abs(p - ray.o), prim |-> p - 1]

\* every value a traversal can leave in Ray::hit
AllHits == {NoHit} \cup {[t |-> d, prim |-> p] : d \in 1..MaxTris, p \in 0..(MaxTris - 1)}

\* BVH8_CWBVH after ConvertFrom of a BVH8 over n triangles
ConvertFrom(n) ==
    [usedBlocks |-> NodeBlocks * ((n + 7) \div 8), triCount |-> n,
     bvh8Data |-> TRUE, bvh8Tris |-> TRUE]

NoCWBVH == [usedBlocks |-> 0, triCount |-> 0, bvh8Data |-> FALSE, bvh8Tris |-> FALSE]

\* ---- C++ integer conversions --------------------------------------------
\* x * 16 in uint32_t arithmetic, then the conversion of the product to int
Times16ToInt(x) ==
    LET lo == x % Wrap16
    IN  IF lo >= Sign16 THEN (lo - Wrap16) * BlockSize ELSE lo * BlockSize

\* ---- the heap of BVHContainer objects -----------------------------------
\* st: "free" (not allocated, or deleted) or "live"; bvh8, cwbvh: the member
\* pointers, "null" or "live"; primCount: the triangles of *bvh8; cw: *cwbvh
Unallocated ==
    [st |-> "free", bvh8 |-> "null", primCount |-> 0, cwbvh |-> "null", cw |-> NoCWBVH]

CanAlloc(h) == \E a \in Addrs : h[a].st = "free"

\* new BVHContainer(): some address that is not in use (a deleted one can come back)
NewAddr(h) == CHOOSE a \in Addrs : h[a].st = "free" /\ \A b \in Addrs : b < a => h[b].st # "free"

\* ---- the slot array -----------------------------------------------------
Size(slots) == Len(slots)

At(slots, i) == slots[i + 1]

\* the registry's notion of a valid handle
Valid(slots, index) == index \in 0..(Size(slots) - 1) /\ At(slots, index) # NULL

\* the number of non-empty slots
Occupied(slots) == Cardinality({i \in 0..(Size(slots) - 1) : At(slots, i) # NULL})

Max(x, y) == IF x >= y THEN x ELSE y

\* ---- AddBVH, GetBVH and DestroyBVH on the slot array ---------------------
\* FindFree with the test of the scan inverted: the first occupied slot
RECURSIVE FindFreeInverted(_, _)
FindFreeInverted(slots, i) ==
    IF i >= Size(slots) THEN Size(slots)
    ELSE IF At(slots, i) # NULL THEN i
    ELSE FindFreeInverted(slots, i + 1)

\* FindFree with the scan started at index 1
RECURSIVE FindFreeSkipFirst(_, _)
FindFreeSkipFirst(slots, i) ==
    LET j == IF i = 0 THEN 1 ELSE i
    IN  IF j >= Size(slots) THEN Size(slots)
        ELSE IF At(slots, j) = NULL THEN j
        ELSE FindFreeSkipFirst(slots, j + 1)

\* the scan of AddBVH from index i on: the first empty slot, or size() if none
RECURSIVE FindFree(_, _)
FindFree(slots, i) ==
    IF i >= Size(slots) THEN Size(slots)
    ELSE IF At(slots, i) = NULL THEN i
    ELSE FindFree(slots, i + 1)

\* AddBVH that returns size() instead of size() - 1 after the push_back
AddBVHIndexNoDecrement(slots) ==
    IF FindFree(slots, 0) < Size(slots) THEN FindFree(slots, 0) ELSE Size(slots) + 1

\* the index AddBVH returns
AddBVHIndex(slots) == FindFree(slots, 0)

\* AddBVH without the scan for an empty slot
AddBVHSlotsAppend(slots, newBVH) == Append(slots, newBVH)

\* the slot array AddBVH leaves: the free entry reused, or a new one appended
AddBVHSlots(slots, newBVH) ==
    LET i == FindFree(slots, 0)
    IN  IF i < Size(slots) THEN [slots EXCEPT ![i + 1] = newBVH]
        ELSE Append(slots, newBVH)

\* GetBVH with index <= size(): the read past the end yields some pointer
GetBVHResultOffByOne(slots, index) ==
    IF index >= 0 /\ index <= Size(slots)
    THEN IF index < Size(slots) THEN At(slots, index) ELSE 1
    ELSE NULL

\* GetBVH with index > 0
GetBVHResultPositive(slots, index) ==
    IF index > 0 /\ index < Size(slots) THEN At(slots, index) ELSE NULL

\* the pointer GetBVH returns
GetBVHResult(slots, index) ==
    IF index >= 0 /\ index < Size(slots) THEN At(slots, index) ELSE NULL

\* the condition under which DestroyBVH deletes
DestroyGuard(slots, index) ==
    /\ index >= 0 /\ index < Size(slots)
    /\ At(slots, index) # NULL

\* the container DestroyBVH deletes, NULL if none
DestroyTarget(slots, index) ==
    IF DestroyGuard(slots, index) THEN At(slots, index) ELSE NULL

\* the slots without the one at index, the later ones moved down
Erase(slots, index) == SubSeq(slots, 1, index) \o SubSeq(slots, index + 2, Len(slots))

\* DestroyBVH without gBVHs[index] = nullptr
DestroySlotsKeep(slots, index) == slots

\* DestroyBVH that erases the slot of the instance it deletes
DestroySlotsErase(slots, index) ==
    IF DestroyGuard(slots, index) THEN Erase(slots, index) ELSE slots

\* DestroyBVH that clears the slot, and erases a slot it finds empty
DestroySlotsCompact(slots, index) ==
    IF DestroyGuard(slots, index) THEN [slots EXCEPT ![index + 1] = NULL]
    ELSE IF index >= 0 /\ index < Size(slots) THEN Erase(slots, index)
    ELSE slots

\* DestroyBVH that drops the last slot of the array when it empties it
DestroySlotsTrim(slots, index) ==
    IF DestroyGuard(slots, index)
    THEN IF index = Size(slots) - 1 THEN SubSeq(slots, 1, index)
         ELSE [slots EXCEPT ![index + 1] = NULL]
    ELSE slots

\* the slot array DestroyBVH leaves
DestroySlots(slots, index) ==
    IF DestroyGuard(slots, index) THEN [slots EXCEPT ![index + 1] = NULL] ELSE slots

\* DestroyBVH that deletes the container before the structures it points to
DestroyDeletesContainerFirst(h, slots, index) ==
    IF DestroyGuard(slots, index)
    THEN LET c == h[At(slots, index)]
         IN  <<"container">> \o (IF c.cwbvh # "null" THEN <<"cwbvh">> ELSE <<>>)
                             \o (IF c.bvh8 # "null" THEN <<"bvh8">> ELSE <<>>)
    ELSE <<>>

\* the deletes of DestroyBVH in the order it does them: lines 72-75, 77-80, 82
DestroyDeletes(h, slots, index) ==
    IF DestroyGuard(slots, index)
    THEN LET c == h[At(slots, index)]
         IN  (IF c.cwbvh # "null" THEN <<"cwbvh">> ELSE <<>>)
                 \o (IF c.bvh8 # "null" THEN <<"bvh8">> ELSE <<>>) \o <<"container">>
    ELSE <<>>

\* the deletes objs done one after the other on container a: the heap they
\* leave, and the fault if one of them reaches into, or deletes again, a
\* container that is deleted already
RECURSIVE DeleteAll(_, _, _)
DeleteAll(h, a, objs) ==
    IF objs = <<>> THEN [heap |-> h, fault |-> "none"]
    ELSE LET obj == Head(objs)
             h1 == IF obj = "cwbvh" THEN [h EXCEPT ![a].cwbvh = "null", ![a].cw = NoCWBVH]
                   ELSE IF obj = "bvh8" THEN [h EXCEPT ![a].bvh8 = "null", ![a].primCount = 0]
                   ELSE [h EXCEPT ![a].st = "free"]
             rest == DeleteAll(h1, a, Tail(objs))
         IN  [heap |-> rest.heap,
              fault |-> IF h[a].st = "live" THEN rest.fault
                        ELSE IF obj = "container" THEN "double_free" ELSE "uaf"]

\* the heap DestroyBVH leaves: cwbvh, bvh8 and the container are deleted
DestroyHeap(h, slots, index) ==
    IF DestroyGuard(slots, index)
    THEN DeleteAll(h, At(slots, index), DestroyDeletes(h, slots, index)).heap
    ELSE h

\* the fault of DestroyBVH, "none" if every delete is of a live object
DestroyFault(h, slots, index) ==
    IF DestroyGuard(slots, index)
    THEN DeleteAll(h, At(slots, index), DestroyDeletes(h, slots, index)).fault
    ELSE "none"

\* Intersect without the test of bvh->cwbvh
SelectStructureNoCheck(useCWBVH, cwbvh) == IF useCWBVH THEN "cwbvh" ELSE "bvh8"

\* the structure Intersect traverses, from useCWBVH and bvh->cwbvh
SelectStructure(useCWBVH, cwbvh) ==
    IF useCWBVH /\ cwbvh # "null" THEN "cwbvh" ELSE "bvh8"

\* GetCWBVHData that wants only one of the two buffers
BuffersSetEither(cw) == cw.bvh8Data \/ cw.bvh8Tris

\* the test of GetCWBVHData on the export buffers of *cwbvh
BuffersSet(cw) == cw.bvh8Data /\ cw.bvh8Tris

\* ---- caller threads ------------------------------------------------------
QueryOps == {"IsBVHReady", "Intersect", "GetCWBVHNodesSize", "GetCWBVHTrisSize", "GetCWBVHData"}

\* the queries that dereference the pointer GetBVH gave them
DerefOps == QueryOps \ {"IsBVHReady"}

\* a thread outside every exported function.  bvh is the local pointer of the
\* function (container in BuildBVH), dangling whether the object it points to
\* has been deleted since it was read; deleted is what DestroyBVH has deleted,
\* in order; the ret and out fields are what the function hands back
Idle ==
    [pc |-> "idle", op |-> "none", index |-> -1, flag |-> FALSE, ray |-> NoRay,
     bvh |-> NULL, dangling |-> FALSE, trav |-> "none", deleted |-> <<>>, fault |-> "none",
     retI |-> 0, retB |-> FALSE, retHit |-> NoHit, outNodes |-> NULL, outTris |-> NULL]

\* what is left of a call when it has returned: its name and its results
Done(op) == [Idle EXCEPT !.pc = "done", !.op = op]

\* values an int read from freed memory can have
GarbageInts == {0, BlockSize}

Init ==
    /\ gBVHs = <<>>
    /\ gBVHMutex = NoThread
    /\ heap = [a \in Addrs |-> Unallocated]
    /\ th = [t \in Threads |-> Idle]
    /\ highWater = 0

\* ---- BuildBVH ------------------------------------------------------------
\* lines 52-54: new BVHContainer, new BVH8, Build
BuildBVH_Build(t, triangleCount, buildCWBVH) ==
    /\ th[t].pc = "idle"
    /\ CanAlloc(heap)
    /\ LET a == NewAddr(heap)
       IN  /\ heap' = [heap EXCEPT ![a] = [Unallocated EXCEPT !.st = "live", !.bvh8 = "live",
                                                               !.primCount = triangleCount]]
           /\ th' = [th EXCEPT ![t] = [Idle EXCEPT !.pc = "convert", !.op = "BuildBVH",
                                                   !.flag = buildCWBVH, !.bvh = a]]
    /\ UNCHANGED <<gBVHs, gBVHMutex, highWater>>

\* BuildBVH that goes on to AddBVH with the conversion still to be done
BuildBVH_ConvertDeferred(t) ==
    /\ th[t].pc = "convert"
    /\ th' = [th EXCEPT ![t].pc = "add"]
    /\ UNCHANGED <<gBVHs, gBVHMutex, heap, highWater>>

\* lines 56-60: new BVH8_CWBVH and ConvertFrom when buildCWBVH
BuildBVH_Convert(t) ==
    /\ th[t].pc = "convert"
    /\ heap' = IF th[t].flag
               THEN [heap EXCEPT ![th[t].bvh] =
                        [@ EXCEPT !.cwbvh = "live",
                                  !.cw = ConvertFrom(heap[th[t].bvh].primCount)]]
               ELSE heap
    /\ th' = [th EXCEPT ![t].pc = "add", ![t].flag = FALSE]
    /\ UNCHANGED <<gBVHs, gBVHMutex, highWater>>

\* AddBVH without the lock_guard
AddBVH_NoMutex(t) ==
    /\ th[t].pc = "add"
    /\ gBVHs' = AddBVHSlots(gBVHs, th[t].bvh)
    /\ th' = [th EXCEPT ![t].pc = "add_ret", ![t].retI = AddBVHIndex(gBVHs)]
    /\ highWater' = Max(highWater, Occupied(AddBVHSlots(gBVHs, th[t].bvh)))
    /\ UNCHANGED <<gBVHMutex, heap>>

\* lines 22-36: AddBVH takes the mutex, scans, stores
AddBVH_Lock(t) ==
    /\ th[t].pc = "add"
    /\ gBVHMutex = NoThread
    /\ gBVHMutex' = t
    /\ gBVHs' = AddBVHSlots(gBVHs, th[t].bvh)
    /\ th' = [th EXCEPT ![t].pc = "add_ret", ![t].retI = AddBVHIndex(gBVHs)]
    /\ highWater' = Max(highWater, Occupied(AddBVHSlots(gBVHs, th[t].bvh)))
    /\ UNCHANGED heap

\* line 37: the lock_guard goes out of scope, BuildBVH returns the index
AddBVH_Unlock(t) ==
    /\ th[t].pc = "add_ret"
    /\ gBVHMutex = t
    /\ gBVHMutex' = NoThread
    /\ th' = [th EXCEPT ![t] = [Done("BuildBVH") EXCEPT !.retI = th[t].retI]]
    /\ UNCHANGED <<gBVHs, heap, highWater>>

\* ---- DestroyBVH ----------------------------------------------------------
\* lines 67-85; bvh is the container deleted (gBVHs[index], NULL if none), and the
\* pointers other threads hold to it dangle from here on
DestroyBVH_Lock(t, index) ==
    /\ th[t].pc = "idle"
    /\ gBVHMutex = NoThread
    /\ gBVHMutex' = t
    /\ heap' = DestroyHeap(heap, gBVHs, index)
    /\ gBVHs' = DestroySlots(gBVHs, index)
    /\ LET gone == DestroyTarget(gBVHs, index)
       IN  th' = [u \in Threads |->
                    IF u = t
                    THEN [Idle EXCEPT !.pc = "destroy_ret", !.op = "DestroyBVH", !.index = index,
                                      !.bvh = gone,
                                      !.deleted = DestroyDeletes(heap, gBVHs, index),
                                      !.fault = DestroyFault(heap, gBVHs, index)]
                    ELSE IF gone # NULL /\ th[u].bvh = gone
                    THEN [th[u] EXCEPT !.dangling = TRUE]
                    ELSE th[u]]
    /\ UNCHANGED highWater

\* line 86
DestroyBVH_Unlock(t) ==
    /\ th[t].pc = "destroy_ret"
    /\ gBVHMutex = t
    /\ gBVHMutex' = NoThread
    /\ th' = [th EXCEPT ![t] = Done("DestroyBVH")]
    /\ UNCHANGED <<gBVHs, heap, highWater>>

\* ---- GetBVH, called first by every query ---------------------------------
\* lines 42-47
GetBVH_Lock(t, op, index, ray, useCWBVH) ==
    /\ th[t].pc = "idle"
    /\ gBVHMutex = NoThread
    /\ gBVHMutex' = t
    /\ th' = [th EXCEPT ![t] = [Idle EXCEPT !.pc = "get_ret", !.op = op, !.index = index,
                                            !.ray = ray, !.flag = useCWBVH,
                                            !.bvh = GetBVHResult(gBVHs, index)]]
    /\ UNCHANGED <<gBVHs, heap, highWater>>

\* GetBVH that returns with the mutex still locked
GetBVH_NoUnlock(t) ==
    /\ th[t].pc = "get_ret"
    /\ gBVHMutex = t
    /\ th' = [th EXCEPT ![t].pc = th[t].op]
    /\ UNCHANGED <<gBVHs, gBVHMutex, heap, highWater>>

\* line 48: back in the query that called
GetBVH_Unlock(t) ==
    /\ th[t].pc = "get_ret"
    /\ gBVHMutex = t
    /\ gBVHMutex' = NoThread
    /\ th' = [th EXCEPT ![t].pc = th[t].op]
    /\ UNCHANGED <<gBVHs, heap, highWater>>

\* ---- the queries ---------------------------------------------------------
\* the pointer thread t holds leads to a deleted container
Stale(t) == th[t].dangling \/ heap[th[t].bvh].st # "live"

\* line 91
IsBVHReady_Return(t) ==
    /\ th[t].pc = "IsBVHReady"
    /\ th' = [th EXCEPT ![t] = [Done("IsBVHReady") EXCEPT !.retB = (th[t].bvh # NULL)]]
    /\ UNCHANGED <<gBVHs, gBVHMutex, heap, highWater>>

\* lines 97-100 and 110: the null test, then the read of bvh->cwbvh; a read of a
\* deleted container yields any pointer
Intersect_Select(t) ==
    /\ th[t].pc = "Intersect"
    /\ LET bvh == th[t].bvh
       IN  IF bvh = NULL
           THEN th' = [th EXCEPT ![t] = [Done("Intersect") EXCEPT !.retHit = NoHit]]
           ELSE IF ~Stale(t)
           THEN th' = [th EXCEPT ![t].pc = "traverse",
                                 ![t].trav = SelectStructure(th[t].flag, heap[bvh].cwbvh)]
           ELSE \E s \in {"cwbvh", "bvh8"} :
                    th' = [th EXCEPT ![t].pc = "traverse", ![t].trav = s, ![t].fault = "uaf"]
    /\ UNCHANGED <<gBVHs, gBVHMutex, heap, highWater>>

\* the member pointer the traversal goes through
Member(c, s) == IF s = "cwbvh" THEN c.cwbvh ELSE c.bvh8

\* lines 102-108: the traversal of the chosen structure and the copy of ray.hit;
\* a traversal of a deleted structure yields any hit, one through a null
\* pointer faults
Intersect_Traverse(t) ==
    /\ th[t].pc = "traverse"
    /\ LET c == heap[th[t].bvh]
       IN  IF Stale(t) \/ th[t].fault = "uaf"
           THEN \E hit \in AllHits :
                    th' = [th EXCEPT ![t] = [Done("Intersect") EXCEPT !.retHit = hit,
                                                                      !.fault = "uaf"]]
           ELSE IF Member(c, th[t].trav) = "null"
           THEN th' = [th EXCEPT ![t] = [Done("Intersect") EXCEPT !.fault = "null"]]
           ELSE th' = [th EXCEPT ![t] = [Done("Intersect") EXCEPT
                                            !.retHit = EngineIntersect(c.primCount, th[t].ray)]]
    /\ UNCHANGED <<gBVHs, gBVHMutex, heap, highWater>>

\* line 116
GetCWBVHNodesSize_Return(t) ==
    /\ th[t].pc = "GetCWBVHNodesSize"
    /\ LET bvh == th[t].bvh
           done == Done("GetCWBVHNodesSize")
       IN  IF bvh = NULL
           THEN th' = [th EXCEPT ![t] = done]
           ELSE IF ~Stale(t)
           THEN th' = [th EXCEPT ![t] = [done EXCEPT
                          !.retI = IF heap[bvh].cwbvh # "null"
                                   THEN Times16ToInt(heap[bvh].cw.usedBlocks)
                                   ELSE 0]]
           ELSE \E g \in GarbageInts :
                    th' = [th EXCEPT ![t] = [done EXCEPT !.retI = g, !.fault = "uaf"]]
    /\ UNCHANGED <<gBVHs, gBVHMutex, heap, highWater>>

\* line 122
GetCWBVHTrisSize_Return(t) ==
    /\ th[t].pc = "GetCWBVHTrisSize"
    /\ LET bvh == th[t].bvh
           done == Done("GetCWBVHTrisSize")
       IN  IF bvh = NULL
           THEN th' = [th EXCEPT ![t] = done]
           ELSE IF ~Stale(t)
           THEN th' = [th EXCEPT ![t] = [done EXCEPT
                          !.retI = IF heap[bvh].cwbvh # "null"
                                   THEN Times16ToInt((heap[bvh].cw.triCount % Wrap16) * 3)
                                   ELSE 0]]
           ELSE \E g \in GarbageInts :
                    th' = [th EXCEPT ![t] = [done EXCEPT !.retI = g, !.fault = "uaf"]]
    /\ UNCHANGED <<gBVHs, gBVHMutex, heap, highWater>>

\* lines 128-140; outNodes and outTris name the container whose buffers
\* *bvhNodes and *bvhTris are set to point into, NULL when they are not set
GetCWBVHData_Return(t) ==
    /\ th[t].pc = "GetCWBVHData"
    /\ LET bvh == th[t].bvh
           done == Done("GetCWBVHData")
       IN  IF bvh = NULL
           THEN th' = [th EXCEPT ![t] = done]
           ELSE IF ~Stale(t)
           THEN IF heap[bvh].cwbvh = "null"
                THEN th' = [th EXCEPT ![t] = done]
                ELSE IF BuffersSet(heap[bvh].cw)
                THEN th' = [th EXCEPT ![t] = [done EXCEPT !.retB = TRUE, !.outNodes = bvh,
                                                          !.outTris = bvh]]
                ELSE th' = [th EXCEPT ![t] = done]
           ELSE \E b \in BOOLEAN :
                    th' = [th EXCEPT ![t] = [done EXCEPT !.retB = b, !.fault = "uaf",
                                                         !.outNodes = IF b THEN bvh ELSE NULL,
                                                         !.outTris = IF b THEN bvh ELSE NULL]]
    /\ UNCHANGED <<gBVHs, gBVHMutex, heap, highWater>>

\* the exported function has returned to its caller
Return(t) ==
    /\ th[t].pc = "done"
    /\ th' = [th EXCEPT ![t] = Idle]
    /\ UNCHANGED <<gBVHs, gBVHMutex, heap, highWater>>

\* ---- the specification: any calls, from any thread, in any interleaving ---
BuildBVH(t) == \E n \in TriCounts, b \in BOOLEAN : BuildBVH_Build(t, n, b)

DestroyBVH(t) == \E index \in Handles : DestroyBVH_Lock(t, index)

IsBVHReady(t) == \E index \in Handles : GetBVH_Lock(t, "IsBVHReady", index, NoRay, FALSE)

Intersect(t) ==
    \E index \in Handles, ray \in Rays, useCWBVH \in BOOLEAN :
        GetBVH_Lock(t, "Intersect", index, ray, useCWBVH)

GetCWBVHNodesSize(t) == \E index \in Handles : GetBVH_Lock(t, "GetCWBVHNodesSize", index, NoRay, FALSE)

GetCWBVHTrisSize(t) == \E index \in Handles : GetBVH_Lock(t, "GetCWBVHTrisSize", index, NoRay, FALSE)

GetCWBVHData(t) == \E index \in Handles : GetBVH_Lock(t, "GetCWBVHData", index, NoRay, FALSE)

\* the steps that continue a call already made
Step(t) ==
    \/ BuildBVH_Convert(t)
    \/ AddBVH_Lock(t)
    \/ AddBVH_Unlock(t)
    \/ DestroyBVH_Unlock(t)
    \/ GetBVH_Unlock(t)
    \/ IsBVHReady_Return(t)
    \/ Intersect_Select(t)
    \/ Intersect_Traverse(t)
    \/ GetCWBVHNodesSize_Return(t)
    \/ GetCWBVHTrisSize_Return(t)
    \/ GetCWBVHData_Return(t)
    \/ Return(t)

Next ==
    \E t \in Threads :
        \/ BuildBVH(t)
        \/ DestroyBVH(t)
        \/ IsBVHReady(t)
        \/ Intersect(t)
        \/ GetCWBVHNodesSize(t)
        \/ GetCWBVHTrisSize(t)
        \/ GetCWBVHData(t)
        \/ Step(t)

Spec == Init /\ [][Next]_vars

\* ---- fair scheduling -----------------------------------------------------
\* a thread inside a call keeps running until the call returns, and a thread
\* blocked in the lock of AddBVH gets the mutex if it is released again and
\* again; nothing obliges a caller to make a call
Fairness == \A t \in Threads : WF_vars(Step(t)) /\ SF_vars(AddBVH_Lock(t))

SpecFair == Spec /\ Fairness

\* ---- the same callers under the documented discipline --------------------
\* no query that dereferences is in flight on handle index in another thread
NoQueryOn(t, index) ==
    \A u \in Threads \ {t} :
        ~(th[u].op \in DerefOps /\ th[u].index = index /\ th[u].pc \notin {"idle", "done"})

\* no DestroyBVH is in flight on handle index in another thread
NoDestroyOn(t, index) ==
    \A u \in Threads \ {t} :
        ~(th[u].op = "DestroyBVH" /\ th[u].index = index /\ th[u].pc \notin {"idle", "done"})

DiscDestroyBVH(t) ==
    \E index \in Handles : NoQueryOn(t, index) /\ DestroyBVH_Lock(t, index)

DiscIntersect(t) ==
    \E index \in Handles, ray \in Rays, useCWBVH \in BOOLEAN :
        NoDestroyOn(t, index) /\ GetBVH_Lock(t, "Intersect", index, ray, useCWBVH)

DiscGetCWBVHNodesSize(t) ==
    \E index \in Handles :
        NoDestroyOn(t, index) /\ GetBVH_Lock(t, "GetCWBVHNodesSize", index, NoRay, FALSE)

DiscGetCWBVHTrisSize(t) ==
    \E index \in Handles :
        NoDestroyOn(t, index) /\ GetBVH_Lock(t, "GetCWBVHTrisSize", index, NoRay, FALSE)

DiscGetCWBVHData(t) ==
    \E index \in Handles :
        NoDestroyOn(t, index) /\ GetBVH_Lock(t, "GetCWBVHData", index, NoRay, FALSE)

NextDisc ==
    \E t \in Threads :
        \/ BuildBVH(t)
        \/ DiscDestroyBVH(t)
        \/ IsBVHReady(t)
        \/ DiscIntersect(t)
        \/ DiscGetCWBVHNodesSize(t)
        \/ DiscGetCWBVHTrisSize(t)
        \/ DiscGetCWBVHData(t)
        \/ Step(t)

SpecDisc == Init /\ [][NextDisc]_vars

\* ---- the export accessors on any instance --------------------------------
\* counts around the values where a product by 16 or by 48 leaves the int range
BlockCounts == {0, NodeBlocks, Sign16 - 1, Sign16, Wrap16 + 1}

BigTriCounts == {0, MaxTris, TrisMax, TrisMax + 1, Sign16}

\* the BVHContainer objects GetBVH can hand to an accessor: without optimized
\* structure, or with one of any counts, each export buffer allocated or not
ExportContainers ==
    {[Unallocated EXCEPT !.st = "live", !.bvh8 = "live", !.primCount = MaxTris]} \cup
    {[st |-> "live", bvh8 |-> "live", primCount |-> MaxTris, cwbvh |-> "live",
      cw |-> [usedBlocks |-> u, triCount |-> n, bvh8Data |-> d, bvh8Tris |-> r]] :
        u \in BlockCounts, n \in BigTriCounts, d \in BOOLEAN, r \in BOOLEAN}

\* one instance is published under handle 0, every other handle is invalid
InitExport ==
    /\ gBVHs = <<1>>
    /\ gBVHMutex = NoThread
    /\ \E c \in ExportContainers : heap = [a \in Addrs |-> IF a = 1 THEN c ELSE Unallocated]
    /\ th = [t \in Threads |-> Idle]
    /\ highWater = 1

NextExport ==
    \E t \in Threads :
        \/ GetCWBVHNodesSize(t)
        \/ GetCWBVHTrisSize(t)
        \/ GetCWBVHData(t)
        \/ GetBVH_Unlock(t)
        \/ GetCWBVHNodesSize_Return(t)
        \/ GetCWBVHTrisSize_Return(t)
        \/ GetCWBVHData_Return(t)
        \/ Return(t)

SpecExport == InitExport /\ [][NextExport]_vars

\* ---- what a step is, read off the two states -----------------------------
\* thread t enters DestroyBVH(index) in this step
Destroys(t, index) ==
    th[t].pc = "idle" /\ th'[t].pc = "destroy_ret" /\ th'[t].index = index

\* thread t does the lookup of GetBVH(index) for query op in this step
LooksUp(t, op, index) ==
    th[t].pc = "idle" /\ th'[t].pc = "get_ret" /\ th'[t].op = op /\ th'[t].index = index

\* thread t stores its container in AddBVH in this step
Publishes(t) == th[t].pc = "add" /\ th'[t].pc = "add_ret"

\* thread t takes a step of its own
Moves(t) == th'[t].pc # th[t].pc

\* thread t leaves query op in this step
Finishes(t, op) == th[t].pc \in {op, "traverse"} /\ th[t].op = op /\ th'[t].pc = "done"

Indices(slots) == 0..(Size(slots) - 1)

Empties(slots) == {i \in Indices(slots) : At(slots, i) = NULL}

\* ---- C1 ------------------------------------------------------------------
\* C1: in no reachable state has an operation read or dereferenced a BVH
\* instance, or one of its structures, that DestroyBVH has already freed
NoUseAfterFree == \A t \in Threads : th[t].fault # "uaf"

\* ---- C2 ------------------------------------------------------------------
\* container a is still private to the BuildBVH that constructs it
Building(a) ==
    \E t \in Threads : th[t].op = "BuildBVH" /\ th[t].pc \in {"convert", "add"} /\ th[t].bvh = a

SlotsOf(a) == {i \in Indices(gBVHs) : At(gBVHs, i) = a}

\* every instance that is live and published is the content of exactly one slot
LiveHaveOwnHandle ==
    \A a \in Addrs : heap[a].st = "live" /\ ~Building(a) => Cardinality(SlotsOf(a)) = 1

\* AddBVH stores into a slot that was empty or new, and touches no other slot
PublishIntoEmpty ==
    \A t \in Threads :
        Publishes(t) =>
            LET h == th'[t].retI
            IN  /\ h \in 0..Size(gBVHs)
                /\ h < Size(gBVHs) => At(gBVHs, h) = NULL
                /\ Size(gBVHs') = IF h < Size(gBVHs) THEN Size(gBVHs) ELSE Size(gBVHs) + 1
                /\ At(gBVHs', h) = th[t].bvh
                /\ \A i \in Indices(gBVHs) \ {h} : At(gBVHs', i) = At(gBVHs, i)

\* C2: the handle BuildBVH returns is the handle of no other instance live at
\* that moment: AddBVH never stores into a non-empty slot, and every live
\* published instance keeps a slot of its own, in every interleaving
HandleUnique == [](LiveHaveOwnHandle) /\ [][PublishIntoEmpty]_vars

\* a BuildBVH has just been given handle 0 again while handle 1 is live
HandleUniqueWitness ==
    \E t \in Threads :
        /\ th[t].pc = "add_ret" /\ th[t].retI = 0
        /\ Size(gBVHs) = 2 /\ At(gBVHs, 1) # NULL /\ At(gBVHs, 1) # At(gBVHs, 0)

\* ---- C3 ------------------------------------------------------------------
\* a step of Intersect after its lookup
IntersectStep(t) == th[t].op = "Intersect" /\ th[t].pc \in {"Intersect", "traverse"}

\* no query holds or has used a pointer to a deleted instance
NoStaleQuery ==
    \A t \in Threads :
        /\ th[t].fault # "uaf"
        /\ th[t].op \in DerefOps /\ th[t].bvh # NULL => ~Stale(t)

\* C3: when no DestroyBVH(h) overlaps a query on h, no query dereferences a
\* freed instance, in every interleaving with BuildBVH and with DestroyBVH of
\* other handles, and the steps of Intersect leave every instance and the slot
\* array as they are
DisciplinedSafe ==
    /\ [](NoStaleQuery)
    /\ [][\A t \in Threads : IntersectStep(t) /\ Moves(t) =>
              heap' = heap /\ gBVHs' = gBVHs]_vars

\* two Intersect calls traverse the instance of one handle at the same time
\* while a second instance is live
DisciplinedSafeWitness ==
    /\ \A t \in Threads : th[t].pc = "traverse" /\ th[t].index = 0 /\ th[t].bvh # NULL
    /\ Size(gBVHs) = 2 /\ At(gBVHs, 1) # NULL

\* ---- C4 ------------------------------------------------------------------
\* C4: the handle BuildBVH publishes under is the smallest index of an empty
\* slot if there is one, and otherwise the previous length of the slot array,
\* which grows by that one slot; on an empty array it is 0
SlotAssignment ==
    [][\A t \in Threads :
          Publishes(t) =>
              LET h == th'[t].retI
                  e == Empties(gBVHs)
              IN  /\ e # {} => h \in e /\ (\A i \in e : h <= i) /\ Size(gBVHs') = Size(gBVHs)
                  /\ e = {} => h = Size(gBVHs) /\ gBVHs' = Append(gBVHs, th[t].bvh)
                  /\ gBVHs = <<>> => h = 0
                  /\ At(gBVHs', h) = th[t].bvh]_vars

\* with slots 0 and 1 both empty, a BuildBVH has just been given handle 0
SlotAssignmentWitness ==
    \E t \in Threads :
        /\ th[t].pc = "add_ret" /\ th[t].retI = 0
        /\ Size(gBVHs) = 2 /\ At(gBVHs, 1) = NULL

\* ---- C5 ------------------------------------------------------------------
\* C5: DestroyBVH(h) on a valid handle leaves slot h empty; an empty slot stays
\* empty until an AddBVH stores into it; and an IsBVHReady(h) that looks slot h
\* up while it is empty gets nullptr and returns false
DestroyInvalidates ==
    [][/\ \A t \in Threads, h \in Handles :
              Destroys(t, h) /\ Valid(gBVHs, h) =>
                  Size(gBVHs') = Size(gBVHs) /\ At(gBVHs', h) = NULL
       /\ \A i \in Empties(gBVHs) :
              i \in Indices(gBVHs') /\ At(gBVHs', i) # NULL =>
                  \E t \in Threads : Publishes(t) /\ th'[t].retI = i
       /\ \A t \in Threads, h \in Handles :
              LooksUp(t, "IsBVHReady", h) /\ h \in Empties(gBVHs) => th'[t].bvh = NULL
       /\ \A t \in Threads :
              th[t].op = "IsBVHReady" /\ th[t].pc = "get_ret" => th'[t].bvh = th[t].bvh
       /\ \A t \in Threads :
              Finishes(t, "IsBVHReady") /\ th[t].bvh = NULL => th'[t].retB = FALSE]_vars

\* a handle destroyed while handle 1 stayed live has just been issued again
\* (the array has two slots, so slot 0 was stored into before)
DestroyInvalidatesWitness ==
    \E t \in Threads :
        /\ th[t].pc = "add_ret" /\ th[t].retI = 0
        /\ Size(gBVHs) = 2 /\ At(gBVHs, 1) # NULL /\ heap[At(gBVHs, 1)].cwbvh = "live"

\* ---- C6 ------------------------------------------------------------------
\* C6: a non-empty slot h holds the same, untouched instance after every step
\* that is not the DestroyBVH(h) that deletes it
IndexStable ==
    [][\A i \in Indices(gBVHs) :
          At(gBVHs, i) # NULL =>
              \/ /\ i \in Indices(gBVHs')
                 /\ At(gBVHs', i) = At(gBVHs, i)
                 /\ heap'[At(gBVHs, i)] = heap[At(gBVHs, i)]
              \/ \E t \in Threads : Destroys(t, i)]_vars

\* handle 0 has been destroyed and handle 1 still holds its instance
IndexStableWitness ==
    /\ Size(gBVHs) = 2 /\ At(gBVHs, 0) = NULL /\ At(gBVHs, 1) # NULL
    /\ \E t \in Threads : th[t].pc = "destroy_ret" /\ th[t].index = 0 /\ th[t].bvh # NULL

\* ---- C7 ------------------------------------------------------------------
\* C7: DestroyBVH(h) with h negative, beyond the array or at an empty slot
\* deletes nothing, leaves the slot array and every instance as they are, and
\* returns without a fault
DestroyInvalidNoop ==
    [][\A t \in Threads, h \in Handles :
          Destroys(t, h) /\ ~Valid(gBVHs, h) =>
              /\ gBVHs' = gBVHs
              /\ heap' = heap
              /\ th'[t].bvh = NULL /\ th'[t].fault = "none"
              /\ \A u \in Threads \ {t} : th'[u] = th[u]]_vars

\* a second DestroyBVH(0) runs on the slot the first one emptied
DestroyInvalidNoopWitness ==
    \E t \in Threads :
        /\ th[t].pc = "destroy_ret" /\ th[t].index = 0 /\ th[t].bvh = NULL
        /\ Size(gBVHs) > 0 /\ At(gBVHs, 0) = NULL

\* ---- C8 ------------------------------------------------------------------
\* what a query hands back on nullptr: false, 0, no pointers, the no-hit value
Degraded(r) ==
    /\ r.retB = FALSE /\ r.retI = 0 /\ r.retHit = NoHit
    /\ r.outNodes = NULL /\ r.outTris = NULL /\ r.fault = "none"

\* C8: a query on a handle that is negative, beyond the array or at an empty
\* slot gets nullptr from GetBVH and returns false (IsBVHReady, GetCWBVHData),
\* 0 (the sizes) or the no-hit Intersection, whatever the ray and useCWBVH,
\* without a fault
InvalidDegrades ==
    [][\A t \in Threads :
          /\ \A op \in QueryOps, h \in Handles :
                 LooksUp(t, op, h) /\ ~Valid(gBVHs, h) => th'[t].bvh = NULL
          /\ th[t].pc = "get_ret" /\ Moves(t) =>
                 th'[t].bvh = th[t].bvh /\ th'[t].pc = th[t].op
          /\ \A op \in QueryOps :
                 Finishes(t, op) /\ th[t].bvh = NULL => Degraded(th'[t])]_vars

\* an Intersect asked for the optimized structure on a handle beyond the array
\* is about to return
InvalidDegradesWitness ==
    \E t \in Threads :
        /\ th[t].pc = "Intersect" /\ th[t].index = Size(gBVHs) /\ th[t].flag
        /\ th[t].ray.d = 1 /\ th[t].bvh = NULL /\ Size(gBVHs) > 0

\* ---- C9 ------------------------------------------------------------------
\* C9: Intersect on a valid handle traverses the optimized structure exactly
\* when useCWBVH is set and the instance has one, and the primary structure
\* otherwise; on an instance without optimized structure the result is the
\* primary traversal of the ray, whatever useCWBVH is
Dispatch ==
    [][\A t \in Threads :
          /\ th[t].pc = "Intersect" /\ th[t].bvh # NULL /\ Moves(t) =>
                 /\ th'[t].pc = "traverse" /\ th'[t].fault = "none"
                 /\ th'[t].trav = IF th[t].flag /\ heap[th[t].bvh].cwbvh = "live"
                                  THEN "cwbvh" ELSE "bvh8"
                 /\ th'[t].flag = th[t].flag /\ th'[t].ray = th[t].ray /\ th'[t].bvh = th[t].bvh
          /\ th[t].pc = "traverse" /\ Moves(t) =>
                 /\ th'[t].pc = "done" /\ th'[t].fault = "none"
                 /\ th[t].trav = "cwbvh" => heap[th[t].bvh].cwbvh = "live"
                 /\ heap[th[t].bvh].cwbvh = "null" =>
                        th'[t].retHit = EngineIntersect(heap[th[t].bvh].primCount, th[t].ray)]_vars

\* an Intersect with useCWBVH set has fallen back to the primary structure of
\* an instance built without optimized structure, for a ray that hits
DispatchWitness ==
    \E t \in Threads :
        /\ th[t].pc = "traverse" /\ th[t].flag /\ th[t].trav = "bvh8"
        /\ heap[th[t].bvh].cwbvh = "null" /\ th[t].ray.d = 1

\* ---- C10 -----------------------------------------------------------------
\* C10: IsBVHReady(h) returns true exactly when 0 <= h < size() and slot h is
\* non-empty at its lookup, and none of its steps changes the slot array or an
\* instance
ReadyIffValid ==
    [][\A t \in Threads :
          /\ \A h \in Handles :
                 LooksUp(t, "IsBVHReady", h) =>
                     (th'[t].bvh # NULL <=> (0 <= h /\ h < Size(gBVHs) /\ At(gBVHs, h) # NULL))
          /\ th[t].op = "IsBVHReady" /\ th[t].pc = "get_ret" /\ Moves(t) =>
                 th'[t].bvh = th[t].bvh /\ th'[t].pc = "IsBVHReady"
          /\ Finishes(t, "IsBVHReady") => th'[t].retB = (th[t].bvh # NULL)
          /\ (\E h \in Handles : LooksUp(t, "IsBVHReady", h))
                 \/ (th[t].op = "IsBVHReady" /\ Moves(t)) =>
                 gBVHs' = gBVHs /\ heap' = heap]_vars

\* IsBVHReady has returned true
ReadyIffValidWitness ==
    \E t \in Threads : th[t].pc = "done" /\ th[t].op = "IsBVHReady" /\ th[t].retB

\* ---- C11 -----------------------------------------------------------------
\* C11: GetCWBVHData returns true exactly when the handle is valid, the
\* instance has an optimized structure and both of its export buffers are
\* non-null, and then both out pointers are set to the buffers of that very
\* instance; in every other case it returns false and sets no pointer
ExportData ==
    [][\A t \in Threads :
          Finishes(t, "GetCWBVHData") =>
              LET bvh == th[t].bvh
                  ok == /\ bvh # NULL
                        /\ heap[bvh].cwbvh = "live"
                        /\ heap[bvh].cw.bvh8Data /\ heap[bvh].cw.bvh8Tris
              IN  /\ th'[t].retB = ok
                  /\ th'[t].fault = "none"
                  /\ ok => th'[t].outNodes = bvh /\ th'[t].outTris = bvh
                            /\ bvh = At(gBVHs, th[t].index)
                  /\ ~ok => th'[t].outNodes = NULL /\ th'[t].outTris = NULL]_vars

\* GetCWBVHData has returned true with both pointers into the instance of handle 0
ExportDataWitness ==
    \E t \in Threads :
        /\ th[t].pc = "done" /\ th[t].op = "GetCWBVHData" /\ th[t].retB
        /\ th[t].outNodes = At(gBVHs, 0) /\ th[t].outTris = At(gBVHs, 0)

\* ---- C12 -----------------------------------------------------------------
\* C12: GetCWBVHNodesSize and GetCWBVHTrisSize never return a negative number,
\* whatever used-block count and triangle count the optimized structure holds
SizesNonNegative ==
    \A t \in Threads :
        th[t].pc = "done" /\ th[t].op \in {"GetCWBVHNodesSize", "GetCWBVHTrisSize"} =>
            th[t].retI >= 0

\* ---- C13 -----------------------------------------------------------------
\* every published instance has its primary structure
PublishedHavePrimary ==
    \A i \in Indices(gBVHs) : At(gBVHs, i) # NULL => heap[At(gBVHs, i)].bvh8 = "live"

\* C13: BuildBVH returns a handle h with 0 <= h < size() under which it has
\* stored its instance; the instance has a primary structure, and an optimized
\* one exactly when buildCWBVH was set; and only the DestroyBVH of its handle
\* changes which structures a published instance has
BuildResult ==
    /\ [](PublishedHavePrimary)
    /\ [][\A t \in Threads :
              /\ th[t].pc = "convert" /\ Moves(t) =>
                     /\ th'[t].pc = "add" /\ th'[t].bvh = th[t].bvh
                     /\ heap'[th[t].bvh].bvh8 = "live"
                     /\ heap'[th[t].bvh].cwbvh = IF th[t].flag THEN "live" ELSE "null"
              /\ Publishes(t) =>
                     LET h == th'[t].retI
                     IN  /\ h >= 0 /\ h < Size(gBVHs')
                         /\ At(gBVHs', h) = th[t].bvh
                         /\ heap'[th[t].bvh] = heap[th[t].bvh]
              /\ th[t].pc = "add_ret" /\ Moves(t) =>
                     /\ th'[t].pc = "done" /\ th'[t].op = "BuildBVH"
                     /\ th'[t].retI = th[t].retI /\ th'[t].fault = "none"
                     /\ th'[t].retI \in Indices(gBVHs')
              /\ \A i \in Indices(gBVHs) :
                     At(gBVHs, i) # NULL /\ ~Destroys(t, i) /\ Moves(t) =>
                         \/ \E u \in Threads \ {t} : Destroys(u, i)
                         \/ /\ heap'[At(gBVHs, i)].bvh8 = heap[At(gBVHs, i)].bvh8
                            /\ heap'[At(gBVHs, i)].cwbvh = heap[At(gBVHs, i)].cwbvh]_vars

\* a BuildBVH has returned handle 1 for an instance with optimized structure
\* while handle 0 holds one without
BuildResultWitness ==
    \E t \in Threads :
        /\ th[t].pc = "done" /\ th[t].op = "BuildBVH" /\ th[t].retI = 1
        /\ Size(gBVHs) = 2 /\ At(gBVHs, 0) # NULL /\ At(gBVHs, 1) # NULL
        /\ heap[At(gBVHs, 0)].cwbvh = "null" /\ heap[At(gBVHs, 1)].cwbvh = "live"

\* ---- C14 -----------------------------------------------------------------
\* C14: in every reachable state the slot array is no longer than the largest
\* number of non-empty slots there has been so far
BoundedGrowth == Occupied(gBVHs) <= highWater /\ Size(gBVHs) <= highWater

\* after a destroy, a BuildBVH has reused slot 0 of an array whose two slots
\* have been occupied together before
BoundedGrowthWitness ==
    \E t \in Threads :
        /\ th[t].pc = "add_ret" /\ th[t].retI = 0
        /\ Size(gBVHs) = 2 /\ highWater = 2 /\ Occupied(gBVHs) = 2

\* ---- C15 -----------------------------------------------------------------
\* C15: the length of the slot array never decreases; every step other than
\* the store of AddBVH, so every step of DestroyBVH and of the queries, leaves
\* it as it is; and the store of AddBVH makes it one longer when no slot was
\* empty and leaves it as it is otherwise
AppendOnly ==
    [][/\ Size(gBVHs') >= Size(gBVHs)
       /\ (\A t \in Threads : ~Publishes(t)) => Size(gBVHs') = Size(gBVHs)
       /\ \A t \in Threads, h \in Handles : Destroys(t, h) => Size(gBVHs') = Size(gBVHs)
       /\ \A t \in Threads :
              th[t].op \in QueryOps \cup {"DestroyBVH"} /\ Moves(t) =>
                  Size(gBVHs') = Size(gBVHs)
       /\ \A t \in Threads :
              Publishes(t) =>
                  Size(gBVHs') = IF Empties(gBVHs) = {} THEN Size(gBVHs) + 1
                                 ELSE Size(gBVHs)]_vars

\* the second of two instances has just been destroyed and the array still
\* has its two slots, both empty
AppendOnlyWitness ==
    /\ Size(gBVHs) = 2 /\ Empties(gBVHs) = {0, 1}
    /\ \E t \in Threads : th[t].pc = "destroy_ret" /\ th[t].index = 1 /\ th[t].bvh # NULL

\* ---- C16 -----------------------------------------------------------------
\* the BuildBVH that owns container a has not finished constructing it: the
\* build, or the conversion that was asked for, is still to be done
Unfinished(a) ==
    \E t \in Threads :
        th[t].op = "BuildBVH" /\ th[t].bvh = a /\ (th[t].pc = "convert" \/ th[t].flag)

\* C16: when BuildBVH reaches AddBVH the primary structure is built and the
\* conversion it was asked for is done; no slot holds an instance that is
\* still under construction, and no query holds the pointer GetBVH gave it
\* to such an instance
PublishAfterConstruct ==
    /\ \A t \in Threads :
           th[t].op = "BuildBVH" /\ th[t].pc = "add" =>
               /\ ~th[t].flag
               /\ heap[th[t].bvh].st = "live" /\ heap[th[t].bvh].bvh8 = "live"
               /\ SlotsOf(th[t].bvh) = {}
    /\ \A a \in Addrs :
           Unfinished(a) =>
               /\ SlotsOf(a) = {}
               /\ \A u \in Threads :
                      th[u].op \in QueryOps /\ th[u].bvh = a => th[u].dangling

\* a query holds the instance of a handle while another thread converts the
\* instance it is building
PublishAfterConstructWitness ==
    \E t, u \in Threads :
        /\ th[t].op = "BuildBVH" /\ th[t].pc = "convert" /\ th[t].flag
        /\ th[u].op = "GetCWBVHData" /\ th[u].pc = "GetCWBVHData"
        /\ th[u].bvh # NULL /\ ~th[u].dangling /\ Size(gBVHs) = 1

\* ---- C17 -----------------------------------------------------------------
\* no DestroyBVH has deleted an object that was deleted already
NoDoubleFree == \A t \in Threads : th[t].op = "DestroyBVH" => th[t].fault = "none"

\* C17: DestroyBVH(h) on a valid handle deletes the optimized structure if
\* there is one, then the primary structure, then the container, and empties
\* slot h, all in the one step it holds the mutex for; every object it deletes
\* is live until then, so nothing is deleted twice, also when several
\* DestroyBVH(h) run at the same time
ReleaseOnce ==
    /\ [](NoDoubleFree)
    /\ [][\A t \in Threads, h \in Handles :
              Destroys(t, h) /\ Valid(gBVHs, h) =>
                  LET a == At(gBVHs, h)
                  IN  /\ heap[a].st = "live" /\ heap[a].bvh8 = "live"
                      /\ th'[t].deleted =
                             IF heap[a].cwbvh = "live" THEN <<"cwbvh", "bvh8", "container">>
                             ELSE <<"bvh8", "container">>
                      /\ heap'[a].st = "free"
                      /\ heap'[a].bvh8 = "null" /\ heap'[a].cwbvh = "null"
                      /\ \A b \in Addrs \ {a} : heap'[b] = heap[b]
                      /\ At(gBVHs', h) = NULL
                      /\ gBVHMutex = NoThread /\ gBVHMutex' = t]_vars

\* a DestroyBVH(0) holds the mutex and has deleted, in order, the three objects
\* of the instance, while the other thread comes back from a DestroyBVH
ReleaseOnceWitness ==
    \E t \in Threads :
        /\ th[t].pc = "destroy_ret" /\ th[t].index = 0
        /\ th[t].deleted = <<"cwbvh", "bvh8", "container">>
        /\ \E u \in Threads \ {t} : th[u].pc = "done" /\ th[u].op = "DestroyBVH"

\* ---- C18 -----------------------------------------------------------------
\* where a thread is between taking gBVHMutex and giving it back
LockedPcs == {"add_ret", "destroy_ret", "get_ret"}

\* thread t is inside the engine: Build, ConvertFrom or Intersect
InEngine(t) == th[t].pc \in {"convert", "traverse"}

\* the threads inside a critical section: at most one, and it is the holder
OneHolder ==
    /\ Cardinality({t \in Threads : th[t].pc \in LockedPcs}) <= 1
    /\ \A t \in Threads : th[t].pc \in LockedPcs <=> gBVHMutex = t
    /\ \A t \in Threads : InEngine(t) => gBVHMutex # t

\* thread t reads or writes the slot array in this step
Accesses(t) ==
    \/ Publishes(t)
    \/ \E h \in Handles : Destroys(t, h)
    \/ \E op \in QueryOps, h \in Handles : LooksUp(t, op, h)

\* C18: the scan and store of AddBVH, the lookup of GetBVH and the check and
\* clear of DestroyBVH are done by a thread that has taken the mutex, which
\* was free, and holds it; the slot array changes in no other step; at most
\* one thread holds the mutex; and the steps of Build, ConvertFrom and of the
\* traversal are taken by threads that do not hold it
LockDiscipline ==
    /\ [](OneHolder)
    /\ [][/\ \A t \in Threads : Accesses(t) => gBVHMutex = NoThread /\ gBVHMutex' = t
          /\ gBVHs' # gBVHs => \E t \in Threads : Accesses(t) /\ gBVHMutex' = t
          /\ \A t \in Threads :
                 Moves(t) /\ (InEngine(t) \/ th'[t].pc \in {"convert", "traverse"}) =>
                     gBVHMutex # t /\ gBVHMutex' # t /\ gBVHs' = gBVHs]_vars

\* a thread holds the mutex inside AddBVH while the other one traverses
LockDisciplineWitness ==
    \E t, u \in Threads :
        /\ th[t].pc = "add_ret" /\ gBVHMutex = t
        /\ th[u].pc = "traverse" /\ th[u].fault = "none"

\* ---- C19 -----------------------------------------------------------------
\* C19: every non-empty slot holds an instance that is allocated and that its
\* BuildBVH has finished and stored; no two slots hold the same instance; and
\* a deleted instance is in no slot
NoDanglingSlots ==
    /\ \A i \in Indices(gBVHs) :
           At(gBVHs, i) # NULL =>
               /\ heap[At(gBVHs, i)].st = "live"
               /\ ~Building(At(gBVHs, i))
    /\ \A i, j \in Indices(gBVHs) :
           i # j /\ At(gBVHs, i) # NULL => At(gBVHs, i) # At(gBVHs, j)
    /\ \A a \in Addrs : heap[a].st = "free" => SlotsOf(a) = {}

\* after both handles were destroyed and two BuildBVH ran at the same time,
\* the slots hold the two reallocated instances, each in one slot
NoDanglingSlotsWitness ==
    /\ Size(gBVHs) = 2 /\ At(gBVHs, 0) = 2 /\ At(gBVHs, 1) = 1
    /\ heap[1].st = "live" /\ heap[2].st = "live"

\* ---- C20 -----------------------------------------------------------------
\* thread t is inside an exported function
InCall(t) == th[t].pc \notin {"idle", "done"}

====
